---- MODULE Spec2Model ----
(***************************************************************************)
(* A model of the dist-sys node (src/src/lib.rs): one process reads a      *)
(* stream of JSON values from stdin, decodes each as a Message, dispatches *)
(* it in Node::handle and writes at most one reply line to stdout.         *)
(*                                                                         *)
(* Every process of the set Procs runs the same code on its own Node, its  *)
(* own stdin and its own stdout; processes share nothing.                  *)
(***************************************************************************)
EXTENDS Integers, Sequences, FiniteSets, TLC

VARIABLES
    messages,       \* Node.messages    : Vec<i32>
    next_msg_id,    \* Node.next_msg_id : i32
    node_id,        \* Node.node_id     : Option<String>
    node_ids,       \* Node.node_ids    : Option<Vec<String>>
    stdout,         \* the lines completely written to Node.stdout (object + "\n")
    partial,        \* an object handed to stdout whose trailing newline failed
    stdin,          \* the units of the input stream read so far, in order
    result          \* where Node::run stands: "running" or how it ended

vars == <<messages, next_msg_id, node_id, node_ids, stdout, partial, stdin, result>>

node_state == <<messages, next_msg_id, node_id, node_ids>>

(***************************************************************************)
(* Bounds of the model.                                                    *)
(***************************************************************************)
\* the longest input stream one process reads
MaxUnits == 3
\* the units read by all processes together when two processes run (SpecNet)
MaxNetUnits == 4

\* the replies still to write, where a run starts near the top of the
\* counter's range (SpecWrap), before the counter is at i32::MAX
WrapLead == 1

\* i32::MAX, the top of Node.next_msg_id's range
I32Max == 2147483647

Procs == {"p1", "p2"}

(***************************************************************************)
(* Option<T>: None is the empty sequence, Some(x) the one-element one.     *)
(***************************************************************************)
None == << >>
Some(x) == << x >>
is_some(o) == o # << >>

(***************************************************************************)
(* JSON values as serde_json reads and writes them.  An object keeps its   *)
(* members in the order they were written.                                 *)
(***************************************************************************)
Null == [t |-> "null"]
Num(i) == [t |-> "num", v |-> i]
Str(s) == [t |-> "str", v |-> s]
Arr(a) == [t |-> "arr", v |-> a]
Obj(members) == [t |-> "obj", v |-> members]

HasKey(o, k) == \E i \in DOMAIN o.v : o.v[i][1] = k
Get(o, k) == o.v[CHOOSE i \in DOMAIN o.v : o.v[i][1] = k][2]
Keys(o) == { o.v[i][1] : i \in DOMAIN o.v }
\* how many members of o are named k, and whether exactly one is
Count(o, k) == Cardinality({ i \in DOMAIN o.v : o.v[i][1] = k })
Once(o, k) == Count(o, k) = 1

IsStr(j) == j.t = "str"
IsI32(j) == j.t = "num"
IsStrArr(j) == j.t = "arr" /\ \A i \in DOMAIN j.v : IsStr(j.v[i])
IsI32Arr(j) == j.t = "arr" /\ \A i \in DOMAIN j.v : IsI32(j.v[i])

StrArr(a) == Arr([i \in DOMAIN a |-> Str(a[i])])
NumArr(a) == Arr([i \in DOMAIN a |-> Num(a[i])])
UnStrArr(j) == [i \in DOMAIN j.v |-> j.v[i].v]
UnNumArr(j) == [i \in DOMAIN j.v |-> j.v[i].v]

(***************************************************************************)
(* enum Payload, #[serde(tag = "type", rename_all = "snake_case")].        *)
(***************************************************************************)
Init_(id, ids) == [type |-> "Init", node_id |-> id, node_ids |-> ids]
InitOk == [type |-> "InitOk"]
Echo(e) == [type |-> "Echo", echo |-> e]
EchoOk(e) == [type |-> "EchoOk", echo |-> e]
Generate == [type |-> "Generate"]
GenerateOk(id) == [type |-> "GenerateOk", id |-> id]
Topology(ids) == [type |-> "Topology", node_ids |-> ids]
TopologyOk == [type |-> "TopologyOk"]
Broadcast(m) == [type |-> "Broadcast", message |-> m]
BroadcastOk == [type |-> "BroadcastOk"]
Read == [type |-> "Read"]
ReadOk(ms) == [type |-> "ReadOk", messages |-> ms]

\* rename_all = "snake_case": the wire tag of each variant
Tags ==
    { <<"Init", "init">>, <<"InitOk", "init_ok">>,
      <<"Echo", "echo">>, <<"EchoOk", "echo_ok">>,
      <<"Generate", "generate">>, <<"GenerateOk", "generate_ok">>,
      <<"Topology", "topology">>, <<"TopologyOk", "topology_ok">>,
      <<"Broadcast", "broadcast">>, <<"BroadcastOk", "broadcast_ok">>,
      <<"Read", "read">>, <<"ReadOk", "read_ok">> }

snake_case(variant) == (CHOOSE tg \in Tags : tg[1] = variant)[2]
variant_of(tag) == (CHOOSE tg \in Tags : tg[2] = tag)[1]
known_tag(tag) == \E tg \in Tags : tg[2] = tag

\* the variants in the order the enum declares them: a variant's index is
\* its place in this order, counted from 0
Variants ==
    << "Init", "InitOk", "Echo", "EchoOk", "Generate", "GenerateOk",
       "Topology", "TopologyOk", "Broadcast", "BroadcastOk", "Read", "ReadOk" >>

\* the variant identifier of an internally tagged enum read from a buffered
\* body: the tag's string, or a non-negative integer taken as the index
is_variant_id(j) ==
    \/ j.t = "str" /\ known_tag(j.v)
    \/ j.t = "num" /\ j.v >= 0 /\ j.v < Len(Variants)
variant_id(j) == IF j.t = "str" THEN variant_of(j.v) ELSE Variants[j.v + 1]

(***************************************************************************)
(* derive(Serialize): Payload, Body (payload flattened into the body's     *)
(* object), Message.  An Option field has no skip_serializing_if, so serde *)
(* writes None as null.                                                    *)
(***************************************************************************)
ser_option(o) == IF is_some(o) THEN Num(o[1]) ELSE Null

\* a mutant of ser_payload: an empty Vec is skipped (skip_serializing_if)
ser_payload_skip_empty(p) ==
    << <<"type", Str(snake_case(p.type))>> >> \o
    CASE p.type = "Init" ->
            << <<"node_id", Str(p.node_id)>>, <<"node_ids", StrArr(p.node_ids)>> >>
      [] p.type \in {"Echo", "EchoOk"} -> << <<"echo", Str(p.echo)>> >>
      [] p.type = "GenerateOk" -> << <<"id", Str(p.id)>> >>
      [] p.type = "Topology" -> << <<"node_ids", StrArr(p.node_ids)>> >>
      [] p.type = "Broadcast" -> << <<"message", Num(p.message)>> >>
      [] p.type = "ReadOk" /\ p.messages # << >> ->
            << <<"messages", NumArr(p.messages)>> >>
      [] OTHER -> << >>

ser_payload(p) ==
    << <<"type", Str(snake_case(p.type))>> >> \o
    CASE p.type = "Init" ->
            << <<"node_id", Str(p.node_id)>>, <<"node_ids", StrArr(p.node_ids)>> >>
      [] p.type \in {"Echo", "EchoOk"} -> << <<"echo", Str(p.echo)>> >>
      [] p.type = "GenerateOk" -> << <<"id", Str(p.id)>> >>
      [] p.type = "Topology" -> << <<"node_ids", StrArr(p.node_ids)>> >>
      [] p.type = "Broadcast" -> << <<"message", Num(p.message)>> >>
      [] p.type = "ReadOk" -> << <<"messages", NumArr(p.messages)>> >>
      [] OTHER -> << >>

ser_body(b) ==
    Obj(<< <<"msg_id", ser_option(b.msg_id)>>,
           <<"in_reply_to", ser_option(b.in_reply_to)>> >> \o ser_payload(b.payload))

to_writer(m) ==
    Obj(<< <<"src", Str(m.src)>>, <<"dest", Str(m.dest)>>, <<"body", ser_body(m.body)>> >>)

(***************************************************************************)
(* derive(Deserialize).  A result is [ok |-> TRUE, val |-> x] or           *)
(* [ok |-> FALSE].  A missing or null Option field is None; a missing or   *)
(* mistyped required field, a tag outside the enum, or a member the type   *)
(* names written twice, is an error; members the type does not name are    *)
(* ignored, however often they are written.  A Message is read from an     *)
(* object or from an array of its fields in order; a Body, flattened, from *)
(* an object only.                                                         *)
(***************************************************************************)
Ok(x) == [ok |-> TRUE, val |-> x]
Err == [ok |-> FALSE]

de_option_ok(o, k) ==
    \/ ~HasKey(o, k)
    \/ Once(o, k) /\ Get(o, k).t \in {"null", "num"}
de_option(o, k) ==
    IF HasKey(o, k) /\ Get(o, k).t = "num" THEN Some(Get(o, k).v) ELSE None

de_payload(o) ==
    IF ~(Once(o, "type") /\ is_variant_id(Get(o, "type")))
    THEN Err
    ELSE LET ty == variant_id(Get(o, "type"))
             has(k) == Once(o, k)
         IN  CASE ty = "Init" ->
                    IF has("node_id") /\ IsStr(Get(o, "node_id"))
                       /\ has("node_ids") /\ IsStrArr(Get(o, "node_ids"))
                    THEN Ok(Init_(Get(o, "node_id").v, UnStrArr(Get(o, "node_ids"))))
                    ELSE Err
               [] ty \in {"Echo", "EchoOk"} ->
                    IF has("echo") /\ IsStr(Get(o, "echo"))
                    THEN Ok([type |-> ty, echo |-> Get(o, "echo").v])
                    ELSE Err
               [] ty = "GenerateOk" ->
                    IF has("id") /\ IsStr(Get(o, "id"))
                    THEN Ok(GenerateOk(Get(o, "id").v))
                    ELSE Err
               [] ty = "Topology" ->
                    IF has("node_ids") /\ IsStrArr(Get(o, "node_ids"))
                    THEN Ok(Topology(UnStrArr(Get(o, "node_ids"))))
                    ELSE Err
               [] ty = "Broadcast" ->
                    IF has("message") /\ IsI32(Get(o, "message"))
                    THEN Ok(Broadcast(Get(o, "message").v))
                    ELSE Err
               [] ty = "ReadOk" ->
                    IF has("messages") /\ IsI32Arr(Get(o, "messages"))
                    THEN Ok(ReadOk(UnNumArr(Get(o, "messages"))))
                    ELSE Err
               [] OTHER -> Ok([type |-> ty])

de_body(o) ==
    IF o.t # "obj" \/ ~de_option_ok(o, "msg_id") \/ ~de_option_ok(o, "in_reply_to")
    THEN Err
    ELSE LET payload == de_payload(o)
         IN  IF ~payload.ok THEN Err
             ELSE Ok([msg_id |-> de_option(o, "msg_id"),
                      in_reply_to |-> de_option(o, "in_reply_to"),
                      payload |-> payload.val])

\* Message read from an array: src, dest and body in this order, no more
de_message_seq(j) ==
    IF ~(Len(j.v) = 3 /\ IsStr(j.v[1]) /\ IsStr(j.v[2])) THEN Err
    ELSE LET body == de_body(j.v[3])
         IN  IF ~body.ok THEN Err
             ELSE Ok([src |-> j.v[1].v, dest |-> j.v[2].v, body |-> body.val])

\* Message read from an object
de_message_map(j) ==
    IF ~(Once(j, "src") /\ IsStr(Get(j, "src"))
         /\ Once(j, "dest") /\ IsStr(Get(j, "dest"))
         /\ Once(j, "body"))
    THEN Err
    ELSE LET body == de_body(Get(j, "body"))
         IN  IF ~body.ok THEN Err
             ELSE Ok([src |-> Get(j, "src").v, dest |-> Get(j, "dest").v,
                      body |-> body.val])

de_message(j) ==
    CASE j.t = "obj" -> de_message_map(j)
      [] j.t = "arr" -> de_message_seq(j)
      [] OTHER -> Err

(***************************************************************************)
(* The input units the model feeds to a process: JSON values as a client   *)
(* or a peer writes them (no in_reply_to on a request, msg_id optional),   *)
(* and values that are no Message.                                         *)
(***************************************************************************)
Wire(src, dest, members) ==
    Obj(<< <<"src", Str(src)>>, <<"dest", Str(dest)>>, <<"body", Obj(members)>> >>)

\* a request from client c1 with a msg_id, and one from c2 without
FromC1(p) == Wire("c1", "n1", ser_payload(p) \o << <<"msg_id", Num(1)>> >>)
FromC2(p) == Wire("c2", "n2", ser_payload(p))
\* a reply from a peer
FromPeer(p) ==
    Wire("n2", "n1", ser_payload(p) \o << <<"msg_id", Num(2)>>, <<"in_reply_to", Num(1)>> >>)

FromC1Payloads ==
    { Init_("n1", <<"n1", "n2">>), Echo("hi"), Generate, Topology(<<"n2">>),
      Broadcast(1), Read }

FromC2Payloads == { Init_("n2", <<"n2", "n1">>), Echo("yo"), Generate, Broadcast(2) }

OkPayloads ==
    { InitOk, EchoOk("hi"), GenerateOk("n2-0"), TopologyOk, BroadcastOk, ReadOk(<<1>>) }

\* an unknown type tag, a missing field, a mistyped field, a field twice
Malformed ==
    { Wire("c1", "n1", << <<"type", Str("gossip")>>, <<"msg_id", Num(1)>> >>),
      Wire("c1", "n1", << <<"type", Str("echo")>>, <<"msg_id", Num(1)>> >>),
      Wire("c1", "n1", << <<"type", Str("broadcast")>>, <<"message", Str("x")>> >>),
      Wire("c1", "n1", << <<"type", Str("echo")>>, <<"echo", Str("hi")>>,
                          <<"msg_id", Num(1)>>, <<"msg_id", Num(2)>> >>) }

\* a request written as an array of the Message's fields, its variant named
\* by index: echo is the variant of index 2
AsSeq ==
    { Arr(<< Str("c1"), Str("n1"),
             Obj(<< <<"type", Num(2)>>, <<"echo", Str("hi")>>, <<"msg_id", Num(1)>> >>) >>) }

Units ==
    { FromC1(p) : p \in FromC1Payloads } \cup { FromC2(p) : p \in FromC2Payloads }
    \cup { FromPeer(p) : p \in OkPayloads } \cup Malformed \cup AsSeq

\* the units of the two-process runs: inits with node ids of which one is a
\* prefix of the other, and the requests that advance the counter
NetUnits ==
    { FromC1(p) : p \in { Init_("n1", <<"n1">>), Init_("n1-0", <<"n1">>), Generate, Echo("hi") } }

\* the units of the runs whose termination is checked (FairSpec)
LiveUnits ==
    { FromC1(Init_("n1", <<"n1", "n2">>)), FromC1(Generate), FromC2(Echo("yo")),
      FromPeer(EchoOk("hi")),
      Wire("c1", "n1", << <<"type", Str("gossip")>>, <<"msg_id", Num(1)>> >>) }

\* what the output stream does with one reply
WriteOutcomes == {"written", "serialize_failed", "newline_failed"}

(***************************************************************************)
(* impl Node                                                               *)
(***************************************************************************)
I32Min == -I32Max - 1

\* a mutant of new: the node starts with a default identity
new_identified ==
    /\ messages = [p \in Procs |-> << >>]
    /\ next_msg_id = [p \in Procs |-> 0]
    /\ node_id = [p \in Procs |-> Some("n0")]
    /\ node_ids = [p \in Procs |-> Some(<< >>)]

\* Node::new
new ==
    /\ messages = [p \in Procs |-> << >>]
    /\ next_msg_id = [p \in Procs |-> 0]
    /\ node_id = [p \in Procs |-> None]
    /\ node_ids = [p \in Procs |-> None]

\* a mutant of init: a second init keeps the first identity
init_once(p, id, ids) ==
    /\ node_id' = [node_id EXCEPT ![p] = IF is_some(@) THEN @ ELSE Some(id)]
    /\ node_ids' = [node_ids EXCEPT ![p] = IF is_some(@) THEN @ ELSE Some(ids)]

\* Node::init
init(p, id, ids) ==
    /\ node_id' = [node_id EXCEPT ![p] = Some(id)]
    /\ node_ids' = [node_ids EXCEPT ![p] = Some(ids)]

\* a mutant of generate_id: unwrap_or_default() in place of expect()
generate_id_or_default(p) ==
    Ok((IF is_some(node_id[p]) THEN node_id[p][1] ELSE "") \o "-" \o ToString(next_msg_id[p]))

\* a mutant of generate_id: the id is built from the roster's first entry
generate_id_from_roster(p) ==
    IF is_some(node_id[p])
    THEN Ok(node_ids[p][1][1] \o "-" \o ToString(next_msg_id[p]))
    ELSE Err

\* Node::generate_id: Ok(the id), or Err where expect() panics
generate_id(p) ==
    IF is_some(node_id[p])
    THEN Ok(node_id[p][1] \o "-" \o ToString(next_msg_id[p]))
    ELSE Err

\* a mutant of reply_message: src and dest are not swapped
reply_message_unswapped(p, msg, payload) ==
    [src |-> msg.src, dest |-> msg.dest,
     body |-> [msg_id |-> Some(next_msg_id[p]),
               in_reply_to |-> msg.body.msg_id,
               payload |-> payload]]

\* Node::reply, the Message it builds
reply_message(p, msg, payload) ==
    [src |-> msg.dest, dest |-> msg.src,
     body |-> [msg_id |-> Some(next_msg_id[p]),
               in_reply_to |-> msg.body.msg_id,
               payload |-> payload]]

\* a mutant of to_stdout: the line stays in a buffer until the next reply
to_stdout_buffered(p, r) ==
    /\ stdout' = [stdout EXCEPT ![p] = @ \o partial[p]]
    /\ partial' = [partial EXCEPT ![p] = << to_writer(r) >>]

\* Node::reply, both writes succeed: the object and its newline are on stdout
to_stdout(p, r) ==
    /\ stdout' = [stdout EXCEPT ![p] = Append(@, to_writer(r))]
    /\ UNCHANGED partial

\* a mutant of increment: the counter stays
increment_forgotten(p, checked) == UNCHANGED <<next_msg_id, result>>

\* Node::reply, `self.next_msg_id += 1`.  checked says whether the build
\* checks integer overflow (the addition panics at i32::MAX) or not (it wraps).
increment(p, checked) ==
    IF next_msg_id[p] < I32Max
    THEN /\ next_msg_id' = [next_msg_id EXCEPT ![p] = @ + 1]
         /\ UNCHANGED result
    ELSE IF checked
    THEN /\ result' = [result EXCEPT ![p] = "panicked"]
         /\ UNCHANGED next_msg_id
    ELSE /\ next_msg_id' = [next_msg_id EXCEPT ![p] = I32Min]
         /\ UNCHANGED result

\* a mutant of reply: the counter is advanced before the writes are tried
reply_counting_failures(p, msg, payload, w, checked) ==
    LET r == reply_message(p, msg, payload)
    IN  CASE w = "serialize_failed" ->
                /\ result' = [result EXCEPT ![p] = "handler_failed"]
                /\ next_msg_id' = [next_msg_id EXCEPT ![p] = @ + 1]
                /\ UNCHANGED <<stdout, partial>>
          [] w = "newline_failed" ->
                /\ partial' = [partial EXCEPT ![p] = << to_writer(r) >>]
                /\ result' = [result EXCEPT ![p] = "handler_failed"]
                /\ next_msg_id' = [next_msg_id EXCEPT ![p] = @ + 1]
                /\ UNCHANGED stdout
          [] OTHER ->
                /\ to_stdout(p, r)
                /\ increment(p, checked)

\* Node::reply.  w is what the output stream does with this reply: a write
\* that fails returns the error before the counter is touched.
reply(p, msg, payload, w, checked) ==
    LET r == reply_message(p, msg, payload)
    IN  CASE w = "serialize_failed" ->
                /\ result' = [result EXCEPT ![p] = "handler_failed"]
                /\ UNCHANGED <<stdout, partial, next_msg_id>>
          [] w = "newline_failed" ->
                /\ partial' = [partial EXCEPT ![p] = << to_writer(r) >>]
                /\ result' = [result EXCEPT ![p] = "handler_failed"]
                /\ UNCHANGED <<stdout, next_msg_id>>
          [] OTHER ->
                /\ to_stdout(p, r)
                /\ increment(p, checked)

\* a mutant of ignore: an ignored message uses up a msg_id
ignore_counted(p) ==
    /\ next_msg_id' = [next_msg_id EXCEPT ![p] = @ + 1]
    /\ UNCHANGED <<messages, node_id, node_ids, stdout, partial, result>>

\* Node::handle, the last arm: ignore "oks" from other nodes
ignore(p) == UNCHANGED <<node_state, stdout, partial, result>>

\* a mutant of handle: topology is answered with topology_ok
handle_topology_ok(p, msg, w, checked) ==
    LET payload == msg.body.payload
    IN  CASE payload.type = "Echo" ->
                /\ reply(p, msg, EchoOk(payload.echo), w, checked)
                /\ UNCHANGED <<messages, node_id, node_ids>>
          [] payload.type = "Init" ->
                /\ init(p, payload.node_id, payload.node_ids)
                /\ reply(p, msg, InitOk, w, checked)
                /\ UNCHANGED messages
          [] payload.type = "Generate" ->
                IF generate_id(p).ok
                THEN /\ reply(p, msg, GenerateOk(generate_id(p).val), w, checked)
                     /\ UNCHANGED <<messages, node_id, node_ids>>
                ELSE \* the panic unwinds before reply is called
                     /\ result' = [result EXCEPT ![p] = "panicked"]
                     /\ UNCHANGED <<node_state, stdout, partial>>
          [] payload.type = "Topology" ->
                /\ reply(p, msg, TopologyOk, w, checked)
                /\ UNCHANGED <<messages, node_id, node_ids>>
          [] payload.type = "Broadcast" ->
                /\ reply(p, msg, BroadcastOk, w, checked)
                /\ UNCHANGED <<messages, node_id, node_ids>>
          [] payload.type = "Read" ->
                /\ reply(p, msg, ReadOk(messages[p]), w, checked)
                /\ UNCHANGED <<messages, node_id, node_ids>>
          [] OTHER -> ignore(p)

\* a mutant of handle: echo expects the node to be initialised
handle_echo_needs_init(p, msg, w, checked) ==
    LET payload == msg.body.payload
    IN  CASE payload.type = "Echo" ->
                IF is_some(node_id[p])
                THEN /\ reply(p, msg, EchoOk(payload.echo), w, checked)
                     /\ UNCHANGED <<messages, node_id, node_ids>>
                ELSE /\ result' = [result EXCEPT ![p] = "panicked"]
                     /\ UNCHANGED <<node_state, stdout, partial>>
          [] payload.type = "Init" ->
                /\ init(p, payload.node_id, payload.node_ids)
                /\ reply(p, msg, InitOk, w, checked)
                /\ UNCHANGED messages
          [] payload.type = "Generate" ->
                IF generate_id(p).ok
                THEN /\ reply(p, msg, GenerateOk(generate_id(p).val), w, checked)
                     /\ UNCHANGED <<messages, node_id, node_ids>>
                ELSE \* the panic unwinds before reply is called
                     /\ result' = [result EXCEPT ![p] = "panicked"]
                     /\ UNCHANGED <<node_state, stdout, partial>>
          [] payload.type = "Topology" ->
                /\ reply(p, msg, Topology(<< >>), w, checked)
                /\ UNCHANGED <<messages, node_id, node_ids>>
          [] payload.type = "Broadcast" ->
                /\ reply(p, msg, BroadcastOk, w, checked)
                /\ UNCHANGED <<messages, node_id, node_ids>>
          [] payload.type = "Read" ->
                /\ reply(p, msg, ReadOk(messages[p]), w, checked)
                /\ UNCHANGED <<messages, node_id, node_ids>>
          [] OTHER -> ignore(p)

\* Node::handle
handle(p, msg, w, checked) ==
    LET payload == msg.body.payload
    IN  CASE payload.type = "Echo" ->
                /\ reply(p, msg, EchoOk(payload.echo), w, checked)
                /\ UNCHANGED <<messages, node_id, node_ids>>
          [] payload.type = "Init" ->
                /\ init(p, payload.node_id, payload.node_ids)
                /\ reply(p, msg, InitOk, w, checked)
                /\ UNCHANGED messages
          [] payload.type = "Generate" ->
                IF generate_id(p).ok
                THEN /\ reply(p, msg, GenerateOk(generate_id(p).val), w, checked)
                     /\ UNCHANGED <<messages, node_id, node_ids>>
                ELSE \* the panic unwinds before reply is called
                     /\ result' = [result EXCEPT ![p] = "panicked"]
                     /\ UNCHANGED <<node_state, stdout, partial>>
          [] payload.type = "Topology" ->
                /\ reply(p, msg, Topology(<< >>), w, checked)
                /\ UNCHANGED <<messages, node_id, node_ids>>
          [] payload.type = "Broadcast" ->
                /\ reply(p, msg, BroadcastOk, w, checked)
                /\ UNCHANGED <<messages, node_id, node_ids>>
          [] payload.type = "Read" ->
                /\ reply(p, msg, ReadOk(messages[p]), w, checked)
                /\ UNCHANGED <<messages, node_id, node_ids>>
          [] OTHER -> ignore(p)

\* a mutant of run_next: a unit that does not decode is skipped
run_next_skipping(p, u, w, checked) ==
    /\ result[p] = "running"
    /\ stdin' = [stdin EXCEPT ![p] = Append(@, u)]
    /\ LET msg == de_message(u)
       IN  IF msg.ok
           THEN handle(p, msg.val, w, checked)
           ELSE UNCHANGED <<node_state, stdout, partial, result>>

\* a mutant of run_next: a handler's error is logged and the loop goes on
run_next_isolating(p, u, w, checked) ==
    /\ result[p] \in {"running", "handler_failed"}
    /\ stdin' = [stdin EXCEPT ![p] = Append(@, u)]
    /\ LET msg == de_message(u)
       IN  IF msg.ok
           THEN handle(p, msg.val, w, checked)
           ELSE /\ result' = [result EXCEPT ![p] = "decode_failed"]
                /\ UNCHANGED <<node_state, stdout, partial>>

\* Node::run, one turn of the loop: the stream yields unit u
run_next(p, u, w, checked) ==
    /\ result[p] = "running"
    /\ stdin' = [stdin EXCEPT ![p] = Append(@, u)]
    /\ LET msg == de_message(u)
       IN  IF msg.ok
           THEN handle(p, msg.val, w, checked)
           ELSE /\ result' = [result EXCEPT ![p] = "decode_failed"]
                /\ UNCHANGED <<node_state, stdout, partial>>

\* a mutant of run_end: the end of the stream is not taken for an end
run_end_unnoticed(p) ==
    /\ result[p] = "running"
    /\ UNCHANGED vars

\* Node::run, the stream ends: the loop is left and run returns Ok(())
run_end(p) ==
    /\ result[p] = "running"
    /\ result' = [result EXCEPT ![p] = "ok"]
    /\ UNCHANGED <<node_state, stdout, partial, stdin>>

\* the builds a step may be of: the two differ only where the counter overflows
Builds(p) == IF next_msg_id[p] = I32Max THEN BOOLEAN ELSE {FALSE}

Init ==
    /\ new
    /\ stdout = [p \in Procs |-> << >>]
    /\ partial = [p \in Procs |-> << >>]
    /\ stdin = [p \in Procs |-> << >>]
    /\ result = [p \in Procs |-> "running"]

\* one process
Step ==
    \E u \in Units, w \in WriteOutcomes, checked \in Builds("p1") :
        /\ Len(stdin["p1"]) < MaxUnits
        /\ run_next("p1", u, w, checked)

End == run_end("p1")

Next == Step \/ End

Spec == Init /\ [][Next]_vars

\* two processes, each on its own streams
NetStep ==
    \E p \in Procs : \E u \in NetUnits, w \in WriteOutcomes, checked \in Builds(p) :
        /\ Len(stdin["p1"]) + Len(stdin["p2"]) < MaxNetUnits
        /\ run_next(p, u, w, checked)

NetEnd == \E p \in Procs : run_end(p)

NetNext == NetStep \/ NetEnd

SpecNet == Init /\ [][NetNext]_vars

\* one process on a finite stream: run does not pause between two turns of
\* its loop, and a read of a finite stream returns a unit or the stream's end
LiveStep ==
    \E u \in LiveUnits, w \in WriteOutcomes, checked \in Builds("p1") :
        /\ Len(stdin["p1"]) < MaxUnits
        /\ run_next("p1", u, w, checked)

LiveNext == LiveStep \/ End

FairSpec == Init /\ [][LiveNext]_vars /\ WF_vars(LiveNext)

\* one process that has answered i32::MAX - WrapLead echo requests before:
\* the node is as Node::new left it but for the counter, and stdout and
\* stdin hold what is written and read from here on
WrapInit ==
    /\ messages = [p \in Procs |-> << >>]
    /\ next_msg_id = [p \in Procs |-> I32Max - WrapLead]
    /\ node_id = [p \in Procs |-> None]
    /\ node_ids = [p \in Procs |-> None]
    /\ stdout = [p \in Procs |-> << >>]
    /\ partial = [p \in Procs |-> << >>]
    /\ stdin = [p \in Procs |-> << >>]
    /\ result = [p \in Procs |-> "running"]

SpecWrap == WrapInit /\ [][Next]_vars

(***************************************************************************)
(* What the properties below read off a run: the requests among the units  *)
(* read, and the replies decoded from the lines written, as the peer that  *)
(* receives them decodes them.                                             *)
(***************************************************************************)
Last(s) == s[Len(s)]

RequestTypes == {"Echo", "Init", "Generate", "Topology", "Broadcast", "Read"}
OkTypes == {"InitOk", "EchoOk", "GenerateOk", "TopologyOk", "BroadcastOk", "ReadOk"}

TypeOf(u) == de_message(u).val.body.payload.type
IsRequest(u) == de_message(u).ok /\ TypeOf(u) \in RequestTypes
IsOk(u) == de_message(u).ok /\ TypeOf(u) \in OkTypes
IsA(u, ty) == de_message(u).ok /\ TypeOf(u) = ty

\* the units of s that ask for a reply, decoded, in stream order
RequestsOf(s) ==
    LET ms == [i \in DOMAIN s |-> de_message(s[i])]
        rs == SelectSeq(ms, LAMBDA m : m.ok /\ m.val.body.payload.type \in RequestTypes)
    IN  [i \in DOMAIN rs |-> rs[i].val]
Requests(p) == RequestsOf(stdin[p])

\* the i-th line process p wrote, decoded
ReplyAt(p, i) == de_message(stdout[p][i]).val

\* process p read a unit in this step
Reads(p) == Len(stdin'[p]) = Len(stdin[p]) + 1
\* process p wrote a line in this step
Writes(p) == Len(stdout'[p]) = Len(stdout[p]) + 1

BagOfSeq(s) ==
    [v \in { s[i] : i \in DOMAIN s } |-> Cardinality({ i \in DOMAIN s : s[i] = v })]

\* the values of the broadcast requests among the first n requests
BroadcastValues(rs, n) ==
    LET bs == SelectSeq(SubSeq(rs, 1, n), LAMBDA m : m.body.payload.type = "Broadcast")
    IN  [i \in DOMAIN bs |-> bs[i].body.payload.message]

\* the node_id of the last init among the requests rs, "" where there is none
RECURSIVE LastInitId(_)
LastInitId(rs) ==
    IF rs = << >> THEN ""
    ELSE IF Last(rs).body.payload.type = "Init" THEN Last(rs).body.payload.node_id
    ELSE LastInitId(SubSeq(rs, 1, Len(rs) - 1))

\* the reply type that answers a request type
Answer(ty) ==
    CASE ty = "Echo" -> "EchoOk"
      [] ty = "Init" -> "InitOk"
      [] ty = "Generate" -> "GenerateOk"
      [] ty = "Topology" -> "Topology"
      [] ty = "Broadcast" -> "BroadcastOk"
      [] ty = "Read" -> "ReadOk"

\* the ids of the generate_ok replies process p wrote, in order
GeneratedIds(p) ==
    LET ms == [i \in DOMAIN stdout[p] |-> de_message(stdout[p][i]).val]
        gs == SelectSeq(ms, LAMBDA m : m.body.payload.type = "GenerateOk")
    IN  [i \in DOMAIN gs |-> gs[i].body.payload.id]

\* the node ids process p was given in init requests
InitIds(p) ==
    LET rs == Requests(p)
    IN  { rs[i].body.payload.node_id :
            i \in { j \in DOMAIN rs : rs[j].body.payload.type = "Init" } }

(***************************************************************************)
(* C1.  A read_ok reply carries exactly the values of the broadcast        *)
(* requests handled before the read, each as often as it was broadcast;    *)
(* the log holds one element per broadcast handled.                        *)
(***************************************************************************)
C1_ReadReturnsBroadcasts ==
    \A p \in Procs :
        LET rs == Requests(p)
        IN  /\ \A i \in DOMAIN stdout[p] :
                  LET payload == ReplyAt(p, i).body.payload
                  IN  payload.type = "ReadOk" =>
                          BagOfSeq(payload.messages) = BagOfSeq(BroadcastValues(rs, i - 1))
            /\ Len(messages[p]) = Len(BroadcastValues(rs, Len(rs)))

(***************************************************************************)
(* C2.  A reply written in a step has the src of the request's dest, the   *)
(* dest of the request's src, and the in_reply_to of the request's msg_id  *)
(* (None where the request has none).                                      *)
(***************************************************************************)
C2_ReplyCorrelates ==
    [][\A p \in Procs :
          Writes(p) =>
              /\ Reads(p)
              /\ de_message(Last(stdout'[p])).ok
              /\ LET req == de_message(Last(stdin'[p])).val
                     rep == de_message(Last(stdout'[p])).val
                 IN  /\ rep.src = req.dest
                     /\ rep.dest = req.src
                     /\ rep.body.in_reply_to = req.body.msg_id]_vars

C2_Witness ==
    \E p \in Procs : \E i, j \in DOMAIN stdout[p] :
        /\ ReplyAt(p, i).body.in_reply_to = None /\ ReplyAt(p, i).src = "n2"
        /\ ReplyAt(p, j).body.in_reply_to = Some(1) /\ ReplyAt(p, j).src = "n1"
        /\ i < j

(***************************************************************************)
(* C3.  The i-th line a process wrote carries msg_id i - 1: the msg_ids    *)
(* are 0, 1, 2, ... in emission order, every reply has one, and an object  *)
(* whose newline failed carries the next one.                              *)
(***************************************************************************)
C3_MsgIdsCountUp ==
    \A p \in Procs :
        /\ \A i \in DOMAIN stdout[p] : ReplyAt(p, i).body.msg_id = Some(i - 1)
        /\ \A i \in DOMAIN partial[p] :
              de_message(partial[p][i]).val.body.msg_id = Some(Len(stdout[p]))

C3_Witness ==
    \E p \in Procs :
        /\ Len(stdout[p]) = 3
        /\ ReplyAt(p, 3).body.msg_id = Some(2)
        /\ ReplyAt(p, 1).body.payload.type # ReplyAt(p, 3).body.payload.type

(***************************************************************************)
(* C4.  A step that reads an *_ok unit writes nothing, leaves the node's   *)
(* state as it was and leaves the loop running.                            *)
(***************************************************************************)
C4_OkIgnored ==
    [][\A p \in Procs :
          (Reads(p) /\ IsOk(Last(stdin'[p]))) =>
              /\ stdout'[p] = stdout[p]
              /\ partial'[p] = partial[p]
              /\ messages'[p] = messages[p]
              /\ next_msg_id'[p] = next_msg_id[p]
              /\ node_id'[p] = node_id[p]
              /\ node_ids'[p] = node_ids[p]
              /\ result'[p] = "running"]_vars

\* an *_ok unit between two requests: the later reply has msg_id 1
C4_Witness ==
    \E p \in Procs :
        /\ Len(stdin[p]) = 3
        /\ IsRequest(stdin[p][1]) /\ IsOk(stdin[p][2]) /\ IsRequest(stdin[p][3])
        /\ Len(stdout[p]) = 2
        /\ ReplyAt(p, 2).body.msg_id = Some(1)

(***************************************************************************)
(* C5.  A generate read while node_id is None ends the run in a panic,     *)
(* with nothing written and the counter where it was; and a generate_ok    *)
(* is written only by a node whose node_id is set, never with an id built  *)
(* from an empty identity.                                                 *)
(***************************************************************************)
C5_GenerateBeforeInit ==
    /\ [][\A p \in Procs :
            (Reads(p) /\ IsA(Last(stdin'[p]), "Generate") /\ node_id[p] = None) =>
                /\ result'[p] = "panicked"
                /\ stdout'[p] = stdout[p]
                /\ partial'[p] = partial[p]
                /\ next_msg_id'[p] = next_msg_id[p]]_vars
    /\ [](\A p \in Procs : \A i \in DOMAIN stdout[p] \cup DOMAIN partial[p] :
            LET line == IF i \in DOMAIN stdout[p] THEN stdout[p][i] ELSE partial[p][i]
            IN  IsA(line, "GenerateOk") =>
                    /\ is_some(node_id[p])
                    /\ de_message(line).val.body.payload.id
                           \notin { "-" \o ToString(k) : k \in 0 .. MaxUnits })

\* a generate before any init, after an echo was answered
C5_Witness ==
    \E p \in Procs :
        /\ result[p] = "panicked"
        /\ Len(stdin[p]) = 2
        /\ IsA(stdin[p][1], "Echo") /\ IsA(stdin[p][2], "Generate")
        /\ Len(stdout[p]) = 1
        /\ next_msg_id[p] = 1

(***************************************************************************)
(* C6.  The generate_ok written for a generate carries the id              *)
(* "{node_id}-{k}", node_id that of the last init handled and k the number *)
(* of replies written before, which is the reply's own msg_id.             *)
(***************************************************************************)
C6_GeneratedIdFormat ==
    [][\A p \in Procs :
          (Reads(p) /\ Writes(p) /\ IsA(Last(stdin'[p]), "Generate")) =>
              LET rep == de_message(Last(stdout'[p])).val
                  k == Len(stdout[p])
              IN  /\ rep.body.payload
                        = GenerateOk(LastInitId(Requests(p)) \o "-" \o ToString(k))
                  /\ rep.body.msg_id = Some(k)]_vars

\* two inits with different ids, then a generate: the id is "n2-2"
C6_Witness ==
    \E p \in Procs :
        /\ Len(stdout[p]) = 3
        /\ InitIds(p) = {"n1", "n2"}
        /\ ReplyAt(p, 3).body.payload = GenerateOk("n2-2")

(***************************************************************************)
(* C7.  No two generate_ok replies carry the same id: not two of one       *)
(* process, and not two of processes that were given different node ids.   *)
(***************************************************************************)
C7_IdsUnique ==
    LET ids == [p \in Procs |-> GeneratedIds(p)]
        given == [p \in Procs |-> InitIds(p)]
    IN  \A p, q \in Procs :
            /\ \A i, j \in DOMAIN ids[p] : i # j => ids[p][i] # ids[p][j]
            /\ (p # q /\ given[p] \cap given[q] = {}) =>
                  \A i \in DOMAIN ids[p], j \in DOMAIN ids[q] : ids[p][i] # ids[q][j]

\* both processes generated, under different node ids, at the same counter
C7_Witness ==
    /\ InitIds("p1") = {"n1"} /\ InitIds("p2") = {"n1-0"}
    /\ GeneratedIds("p1") = <<"n1-1">>
    /\ GeneratedIds("p2") = <<"n1-0-1">>

(***************************************************************************)
(* C8.  No member of a written reply's body is null: msg_id and            *)
(* in_reply_to are numbers where present, and in_reply_to is not a member  *)
(* where the request had no msg_id.                                        *)
(***************************************************************************)
C8_NoNullOnWire ==
    \A p \in Procs :
        LET rs == Requests(p)
        IN  \A i \in DOMAIN stdout[p] :
                LET body == Get(stdout[p][i], "body")
                IN  /\ \A k \in Keys(body) \cap {"msg_id", "in_reply_to"} :
                          IsI32(Get(body, k))
                    /\ rs[i].body.msg_id = None => "in_reply_to" \notin Keys(body)

(***************************************************************************)
(* C9.  The i-th line written answers the i-th request read; while the run *)
(* has not failed, there are as many lines as requests (each reply is      *)
(* written before the next unit is read), and a run that failed in a       *)
(* handler lacks at most the reply to the request it failed on.            *)
(***************************************************************************)
C9_RepliesFifo ==
    \A p \in Procs :
        LET rs == Requests(p)
        IN  /\ Len(stdout[p]) <= Len(rs)
            /\ \A i \in DOMAIN stdout[p] :
                  LET req == rs[i]
                      rep == ReplyAt(p, i)
                  IN  /\ rep.body.payload.type = Answer(req.body.payload.type)
                      /\ rep.body.in_reply_to = req.body.msg_id
                      /\ rep.dest = req.src
            /\ result[p] \in {"running", "ok", "decode_failed"} =>
                  Len(stdout[p]) = Len(rs) /\ partial[p] = << >>
            /\ result[p] \in {"panicked", "handler_failed"} =>
                  Len(stdout[p]) >= Len(rs) - 1

\* three requests of three kinds from two clients, answered in order
C9_Witness ==
    \E p \in Procs :
        /\ Len(stdout[p]) = 3 /\ Len(stdin[p]) = 3
        /\ ReplyAt(p, 1).body.payload.type = "BroadcastOk" /\ ReplyAt(p, 1).dest = "c2"
        /\ ReplyAt(p, 2).body.payload.type = "ReadOk" /\ ReplyAt(p, 2).dest = "c1"
        /\ ReplyAt(p, 3).body.payload.type = "EchoOk" /\ ReplyAt(p, 3).dest = "c2"

(***************************************************************************)
(* C10.  A unit that does not decode ends the run as a decode failure at   *)
(* that unit: every request before it has its reply, the step changes      *)
(* nothing else, and once the run has failed so nothing is read or written *)
(* again.                                                                  *)
(***************************************************************************)
C10_DecodeFailureStops ==
    [][\A p \in Procs :
          /\ (Reads(p) /\ ~de_message(Last(stdin'[p])).ok) =>
                /\ result'[p] = "decode_failed"
                /\ stdout'[p] = stdout[p]
                /\ partial'[p] = partial[p]
                /\ <<messages'[p], next_msg_id'[p], node_id'[p], node_ids'[p]>>
                       = <<messages[p], next_msg_id[p], node_id[p], node_ids[p]>>
                /\ Len(stdout[p]) = Len(Requests(p))
          /\ result[p] = "decode_failed" =>
                /\ ~de_message(Last(stdin[p])).ok
                /\ stdin'[p] = stdin[p]
                /\ stdout'[p] = stdout[p]
                /\ result'[p] = result[p]
                /\ next_msg_id'[p] = next_msg_id[p]]_vars

\* an answered request, then a unit with an unknown type tag
C10_Witness ==
    \E p \in Procs :
        /\ result[p] = "decode_failed"
        /\ Len(stdin[p]) = 2
        /\ Len(stdout[p]) = 1
        /\ Get(Get(stdin[p][2], "body"), "type") = Str("gossip")

(***************************************************************************)
(* C11.  A request whose handling fails (generate_id's panic, a failed     *)
(* write) ends the run: the step leaves the loop, and from then on nothing *)
(* is read, nothing is written and the node's state stays as it is.        *)
(***************************************************************************)
C11_HandlerFailureStops ==
    [][\A p \in Procs :
          /\ (Reads(p) /\ IsRequest(Last(stdin'[p])) /\ ~Writes(p)) =>
                result'[p] \in {"panicked", "handler_failed"}
          /\ result[p] \in {"panicked", "handler_failed"} =>
                /\ stdin'[p] = stdin[p]
                /\ stdout'[p] = stdout[p]
                /\ partial'[p] = partial[p]
                /\ result'[p] = result[p]
                /\ <<messages'[p], next_msg_id'[p], node_id'[p], node_ids'[p]>>
                       = <<messages[p], next_msg_id[p], node_id[p], node_ids[p]>>]_vars

\* an answered request, then one whose newline could not be written
C11_Witness ==
    \E p \in Procs :
        /\ result[p] = "handler_failed"
        /\ Len(stdin[p]) = 2
        /\ Len(stdout[p]) = 1
        /\ partial[p] # << >>
        /\ next_msg_id[p] = 1

(***************************************************************************)
(* C12.  As claimed: node_id and node_ids are None until an init is        *)
(* handled, and once they are set no step changes them.                    *)
(***************************************************************************)
C12_SetExactlyOnce ==
    /\ [](\A p \in Procs :
            InitIds(p) = {} => node_id[p] = None /\ node_ids[p] = None)
    /\ [][\A p \in Procs :
            is_some(node_id[p]) =>
                node_id'[p] = node_id[p] /\ node_ids'[p] = node_ids[p]]_vars

(***************************************************************************)
(* C12, amended.  node_id and node_ids are None until an init is handled,  *)
(* and only a step that handles an init changes them: it sets them to that *)
(* init's node_id and node_ids, whether or not they were set before.       *)
(***************************************************************************)
C12_SetOnlyByInit ==
    /\ [](\A p \in Procs :
            InitIds(p) = {} => node_id[p] = None /\ node_ids[p] = None)
    /\ [][\A p \in Procs :
            (node_id'[p] # node_id[p] \/ node_ids'[p] # node_ids[p]) =>
                /\ Reads(p)
                /\ IsA(Last(stdin'[p]), "Init")
                /\ LET payload == de_message(Last(stdin'[p])).val.body.payload
                   IN  /\ node_id'[p] = Some(payload.node_id)
                       /\ node_ids'[p] = Some(payload.node_ids)]_vars

\* a second init has replaced the identity and the roster of the first
C12_Witness ==
    \E p \in Procs :
        /\ Len(stdin[p]) = 2
        /\ IsA(stdin[p][1], "Init") /\ IsA(stdin[p][2], "Init")
        /\ node_id[p] = Some("n2")
        /\ node_ids[p] = Some(<<"n2", "n1">>)
        /\ InitIds(p) = {"n1", "n2"}

(***************************************************************************)
(* C13.  Every init is handled without a panic: it sets node_id and        *)
(* node_ids to its own values, leaves the log alone, and, its write        *)
(* succeeding, is answered with init_ok under the next msg_id.  So at any  *)
(* time node_id is that of the last init read.                             *)
(***************************************************************************)
C13_InitOverwrites ==
    /\ [][\A p \in Procs :
            (Reads(p) /\ IsA(Last(stdin'[p]), "Init")) =>
                LET payload == de_message(Last(stdin'[p])).val.body.payload
                IN  /\ node_id'[p] = Some(payload.node_id)
                    /\ node_ids'[p] = Some(payload.node_ids)
                    /\ messages'[p] = messages[p]
                    /\ result'[p] \in {"running", "handler_failed"}
                    /\ result'[p] = "running" =>
                          /\ Writes(p)
                          /\ de_message(Last(stdout'[p])).val.body.payload = InitOk
                          /\ de_message(Last(stdout'[p])).val.body.msg_id
                                 = Some(Len(stdout[p]))
                          /\ next_msg_id'[p] = next_msg_id[p] + 1
                    /\ result'[p] = "handler_failed" =>
                          stdout'[p] = stdout[p] /\ next_msg_id'[p] = next_msg_id[p]]_vars
    /\ [](\A p \in Procs :
            InitIds(p) # {} => node_id[p] = Some(LastInitId(Requests(p))))

\* three inits, each answered with init_ok; the last one's identity stands
C13_Witness ==
    \E p \in Procs :
        /\ Len(stdin[p]) = 3 /\ Len(stdout[p]) = 3
        /\ \A i \in 1 .. 3 : ReplyAt(p, i).body.payload = InitOk
        /\ IsA(stdin[p][3], "Init")
        /\ node_id[p] = Some("n1")
        /\ InitIds(p) = {"n1", "n2"}
        /\ next_msg_id[p] = 3

(***************************************************************************)
(* C14.  A topology request is answered, its write succeeding, with one    *)
(* reply of type topology whose node_ids is empty, under the next msg_id;  *)
(* the roster it carries is dropped: node_id, node_ids and the log stay.   *)
(***************************************************************************)
C14_TopologyReply ==
    [][\A p \in Procs :
          (Reads(p) /\ IsA(Last(stdin'[p]), "Topology")) =>
              /\ node_id'[p] = node_id[p]
              /\ node_ids'[p] = node_ids[p]
              /\ messages'[p] = messages[p]
              /\ result'[p] \in {"running", "handler_failed"}
              /\ result'[p] = "running" =>
                    /\ Writes(p)
                    /\ Get(Get(Last(stdout'[p]), "body"), "type") = Str("topology")
                    /\ de_message(Last(stdout'[p])).ok
                    /\ de_message(Last(stdout'[p])).val.body.payload = Topology(<< >>)
                    /\ next_msg_id'[p] = next_msg_id[p] + 1
              /\ result'[p] = "handler_failed" =>
                    stdout'[p] = stdout[p] /\ next_msg_id'[p] = next_msg_id[p]]_vars

\* a topology after an init: answered in kind, the init's roster still stored
C14_Witness ==
    \E p \in Procs :
        /\ Len(stdin[p]) = 2 /\ Len(stdout[p]) = 2
        /\ IsA(stdin[p][2], "Topology")
        /\ ReplyAt(p, 2).body.payload.type = "Topology"
        /\ ReplyAt(p, 2).body.payload.node_ids = << >>
        /\ node_ids[p] = Some(<<"n1", "n2">>)
        /\ next_msg_id[p] = 2

(***************************************************************************)
(* C15.  generate_id reads the node and changes nothing: the counter moves *)
(* only in a step that writes a line, a generate whose reply is not        *)
(* written leaves the node as it was, and generate_id returns the same in  *)
(* two states between which no line was written and no init handled.       *)
(***************************************************************************)
C15_GenerateIdReadsOnly ==
    [][\A p \in Procs :
          /\ next_msg_id'[p] # next_msg_id[p] => Writes(p)
          /\ (Reads(p) /\ IsA(Last(stdin'[p]), "Generate") /\ ~Writes(p)) =>
                <<messages'[p], next_msg_id'[p], node_id'[p], node_ids'[p]>>
                    = <<messages[p], next_msg_id[p], node_id[p], node_ids[p]>>
          /\ (~Writes(p) /\ node_id'[p] = node_id[p]) =>
                generate_id(p)' = generate_id(p)]_vars

\* a generate after an init whose reply could not be written: the id that
\* was built is "n1-1" and the counter is still 1
C15_Witness ==
    \E p \in Procs :
        /\ Len(stdin[p]) = 2 /\ Len(stdout[p]) = 1
        /\ IsA(stdin[p][2], "Generate")
        /\ result[p] = "handler_failed"
        /\ partial[p] # << >>
        /\ de_message(partial[p][1]).val.body.payload = GenerateOk("n1-1")
        /\ generate_id(p) = Ok("n1-1")

(***************************************************************************)
(* C16.  A read is answered, its write succeeding, with read_ok carrying   *)
(* the log as it is, and leaves the log, node_id and node_ids alone; two   *)
(* read_ok replies with no broadcast read between their requests carry     *)
(* equal messages.                                                         *)
(***************************************************************************)
C16_ReadSnapshot ==
    /\ [][\A p \in Procs :
            (Reads(p) /\ IsA(Last(stdin'[p]), "Read")) =>
                /\ messages'[p] = messages[p]
                /\ node_id'[p] = node_id[p]
                /\ node_ids'[p] = node_ids[p]
                /\ result'[p] \in {"running", "handler_failed"}
                /\ result'[p] = "running" =>
                      /\ Writes(p)
                      /\ de_message(Last(stdout'[p])).ok
                      /\ de_message(Last(stdout'[p])).val.body.payload
                             = ReadOk(messages[p])]_vars
    /\ [](\A p \in Procs :
            LET rs == Requests(p)
                reps == [i \in DOMAIN stdout[p] |-> de_message(stdout[p][i])]
            IN  \A i, j \in DOMAIN stdout[p] :
                    (/\ i < j
                     /\ rs[i].body.payload.type = "Read"
                     /\ rs[j].body.payload.type = "Read"
                     /\ \A k \in i .. j : rs[k].body.payload.type # "Broadcast") =>
                        /\ reps[i].ok /\ reps[j].ok
                        /\ reps[i].val.body.payload = reps[j].val.body.payload)

\* two reads with an echo between them
C16_Witness ==
    \E p \in Procs :
        /\ Len(stdin[p]) = 3 /\ Len(stdout[p]) = 3
        /\ IsA(stdin[p][1], "Read") /\ IsA(stdin[p][2], "Echo") /\ IsA(stdin[p][3], "Read")
        /\ ReplyAt(p, 1).body.payload = ReadOk(messages[p])
        /\ ReplyAt(p, 3).body.payload = ReadOk(messages[p])

(***************************************************************************)
(* C17.  An echo is answered in every node state, initialised or not: its  *)
(* write succeeding, with one echo_ok that carries the request's echo,     *)
(* under the next msg_id; nothing of the node but the counter changes.     *)
(***************************************************************************)
C17_EchoReply ==
    [][\A p \in Procs :
          (Reads(p) /\ IsA(Last(stdin'[p]), "Echo")) =>
              /\ messages'[p] = messages[p]
              /\ node_id'[p] = node_id[p]
              /\ node_ids'[p] = node_ids[p]
              /\ result'[p] \in {"running", "handler_failed"}
              /\ result'[p] = "running" =>
                    /\ Writes(p)
                    /\ de_message(Last(stdout'[p])).val.body.payload
                           = EchoOk(de_message(Last(stdin'[p])).val.body.payload.echo)
                    /\ next_msg_id'[p] = next_msg_id[p] + 1
              /\ result'[p] = "handler_failed" =>
                    stdout'[p] = stdout[p] /\ next_msg_id'[p] = next_msg_id[p]]_vars

\* an echo before any init
C17_Witness ==
    \E p \in Procs :
        /\ Len(stdin[p]) = 1 /\ Len(stdout[p]) = 1
        /\ node_id[p] = None
        /\ ReplyAt(p, 1).body.payload = EchoOk("yo")
        /\ next_msg_id[p] = 1
        /\ result[p] = "running"

(***************************************************************************)
(* C18.  A reply whose write fails ends the run with the handler's error   *)
(* and leaves the counter where it was: the counter is the number of lines *)
(* completely written.                                                     *)
(***************************************************************************)
C18_WriteFailure ==
    /\ [][\A p \in Procs :
            /\ (Reads(p) /\ IsRequest(Last(stdin'[p])) /\ ~Writes(p)
                /\ ~(IsA(Last(stdin'[p]), "Generate") /\ node_id[p] = None)) =>
                  result'[p] = "handler_failed"
            /\ (result[p] = "running" /\ result'[p] = "handler_failed") =>
                  /\ next_msg_id'[p] = next_msg_id[p]
                  /\ stdout'[p] = stdout[p]]_vars
    /\ [](\A p \in Procs : next_msg_id[p] = Len(stdout[p]))

\* the first reply could not be serialized: nothing written, counter at 0
C18_Witness ==
    \E p \in Procs :
        /\ result[p] = "handler_failed"
        /\ Len(stdin[p]) = 1
        /\ IsRequest(stdin[p][1])
        /\ stdout[p] = << >> /\ partial[p] = << >>
        /\ next_msg_id[p] = 0

(***************************************************************************)
(* C19.  On a finite stream run ends.  It ends with Ok only when every     *)
(* unit read was handled once and in order: all decode, and the i-th line  *)
(* answers the i-th request under msg_id i - 1.  It ends otherwise only at *)
(* a unit that does not decode, at a generate before any init, or at a     *)
(* reply that could not be written.                                        *)
(***************************************************************************)
C19_RunTerminates ==
    /\ <>(result["p1"] # "running")
    /\ [](\A p \in Procs :
            LET rs == Requests(p)
            IN  /\ result[p] = "ok" =>
                      /\ \A i \in DOMAIN stdin[p] : de_message(stdin[p][i]).ok
                      /\ Len(stdout[p]) = Len(rs)
                      /\ partial[p] = << >>
                      /\ \A i \in DOMAIN stdout[p] :
                            /\ ReplyAt(p, i).body.msg_id = Some(i - 1)
                            /\ ReplyAt(p, i).body.in_reply_to = rs[i].body.msg_id
                            /\ ReplyAt(p, i).dest = rs[i].src
                            /\ ReplyAt(p, i).body.payload.type
                                   = Answer(rs[i].body.payload.type)
                /\ result[p] = "decode_failed" => ~de_message(Last(stdin[p])).ok
                /\ result[p] = "panicked" =>
                      /\ IsA(Last(stdin[p]), "Generate")
                      /\ InitIds(p) = {}
                /\ result[p] = "handler_failed" =>
                      /\ IsRequest(Last(stdin[p]))
                      /\ Len(stdout[p]) = Len(rs) - 1)

\* a stream of an init, a peer's echo_ok and a generate, read to its end
C19_Witness ==
    /\ result["p1"] = "ok"
    /\ Len(stdin["p1"]) = 3
    /\ IsA(stdin["p1"][1], "Init") /\ IsOk(stdin["p1"][2]) /\ IsA(stdin["p1"][3], "Generate")
    /\ Len(stdout["p1"]) = 2

(***************************************************************************)
(* C20.  The msg_ids of the lines a process writes increase strictly, at   *)
(* the top of the counter's range too: no line carries a msg_id less than  *)
(* or equal to that of a line written before it.                           *)
(***************************************************************************)
C20_MsgIdsNeverDecrease ==
    \A p \in Procs :
        LET ids == [i \in DOMAIN stdout[p] |-> ReplyAt(p, i).body.msg_id[1]]
        IN  \A i, j \in DOMAIN ids : i < j => ids[i] < ids[j]

====
